---- MODULE Spec2Model ----
(***************************************************************************)
(* react-native-voice-utils: the native recognizer session adapter         *)
(* (android VoiceModule.kt) behind its promise wrappers (src/index.tsx).   *)
(*                                                                         *)
(* The control operations startListening / stopListening / destroy post    *)
(* their bodies to the UI thread (UiThreadUtil.runOnUiThread); one body    *)
(* runs to completion before the next one or a recognizer callback runs.   *)
(* The platform SpeechRecognizer service is the environment: it creates    *)
(* and releases recognizer instances, may raise in any platform call, and  *)
(* delivers RecognitionListener callbacks while a recognition is in flight.*)
(***************************************************************************)
EXTENDS Integers, Sequences, FiniteSets, TLC

\* ------------------------------------------------------------------ bounds
MaxCalls == 3         \* calls the application issues in one run
MaxLiveCalls == 2     \* calls issued in the runs checked for completion
MaxRelayCalls == 1    \* calls issued in the runs that exercise the event relay
MaxSubs == 3          \* subscriptions the application makes in one run
MaxErrorCode == 11    \* largest error code the platform is let pass to onError
MaxHypotheses == 2    \* most hypotheses in one result bundle

\* --------------------------------------------------------------- constants
None == 0             \* speechRecognizer = null

ControlOps == {"startListening", "stopListening", "destroy"}
TerminalCallbacks == {"onEndOfSpeech", "onError", "onResults"}

\* Where the platform raises inside a body run on the UI thread:
\*   release       SpeechRecognizer.destroy() raises, instance not released
\*   release_late  SpeechRecognizer.destroy() raises after releasing
\*   create        createSpeechRecognizer / setRecognitionListener raises
\*   begin         SpeechRecognizer.startListening(intent) raises
\*   stop          SpeechRecognizer.stopListening() raises
RaisePoints == {"none", "release", "release_late", "create", "begin", "stop"}

\* e.message of a platform exception
Messages == {"msgA", "msgB"}

\* the text promise.reject / promise.resolve carries when no exception is involved
FixedMessage(result) ==
    CASE result = "ALREADY_LISTENING" -> "Speech recognition is already active"
      [] result = "NOT_AVAILABLE" -> "Speech recognition not available"
      [] OTHER -> result

\* Platform.OS
PlatformNames == {"android", "ios"}

\* no event payload (sendEvent(name, null))
NoPayload == [kind |-> "null"]

\* the events VoiceModule sends, by the listener method that sends them
EventNames == {"onReadyForSpeech", "onBeginningOfSpeech", "onEndOfSpeech",
               "onResults", "onPartialResults", "onError", "onRmsChanged"}

\* the event names the application subscribes to in the runs explored
SubscribedNames == {"onResults", "onError"}

\* the event names the application passes to removeAllListeners in the runs
\* explored: those it subscribes to and one it never subscribes to
RemovedNames == SubscribedNames \cup {"onRmsChanged"}

\* error codes the platform passes to onError in the runs explored
ErrorCodes == {7, 10}

\* rmsdB values the platform passes to onRmsChanged in the runs explored
RmsLevels == {2}

\* result bundles the platform passes to onResults / onPartialResults:
\* RESULTS_RECOGNITION (null or a list) and CONFIDENCE_SCORES (null or an array)
Bundles ==
    { [matches |-> [present |-> TRUE, values |-> << "hello world" >>],
       confidence |-> [present |-> TRUE, values |-> << 91 >>]],
      [matches |-> [present |-> TRUE, values |-> << "hi", "high" >>],
       confidence |-> [present |-> FALSE, values |-> << >>]] }

\* every error code explored for onError: the platform's ERROR_* constants are
\* 1..9 here; -1, 0 and the codes above 9 have no entry in getErrorMessage
AnyErrorCodes == (0 - 1)..MaxErrorCode

\* hypotheses and confidence scores (in percent) the platform may report
Words == {"hi", "high"}
Scores == {50, 91}

\* the sequences over S of length n
SeqsOf(S, n) == [1..n -> S]

\* every result bundle explored: a null bundle, or a list of hypotheses with
\* either no confidence scores or, as the platform documents
\* CONFIDENCE_SCORES, one score per hypothesis
AnyBundles ==
    { [matches |-> [present |-> FALSE, values |-> << >>],
       confidence |-> [present |-> FALSE, values |-> << >>]] }
    \cup UNION { { [matches |-> [present |-> TRUE, values |-> m],
                    confidence |-> [present |-> FALSE, values |-> << >>]]
                  : m \in SeqsOf(Words, n) }
                : n \in 0..MaxHypotheses }
    \cup UNION { { [matches |-> [present |-> TRUE, values |-> m],
                    confidence |-> [present |-> TRUE, values |-> c]]
                  : m \in SeqsOf(Words, n), c \in SeqsOf(Scores, n) }
                : n \in 0..MaxHypotheses }

\* what the platform passes to a listener method: nothing of interest, an
\* error code, an rms level or a result bundle
NoArg == [kind |-> "none"]

VARIABLES
    linked,            \* NativeModules.VoiceModule is present (index.tsx:4)
    platformOS,        \* Platform.OS
    speechRecognizer,  \* VoiceModule.speechRecognizer: None or an instance id
    isListening,       \* VoiceModule.isListening
    created,           \* platform: number of instances created so far (ids 1..created)
    released,          \* platform: instances released by SpeechRecognizer.destroy()
    inFlight,          \* platform: instance with a recognition begun and no final
                       \* result or error delivered yet (None if there is none)
    confirmed,         \* platform: onReadyForSpeech or onBeginningOfSpeech has been
                       \* delivered for the recognition in flight
    ahead,             \* main looper: bodies posted before the recognition in
                       \* flight began and not run yet (its callbacks queue behind them)
    available,         \* platform: SpeechRecognizer.isRecognitionAvailable
    uiQueue,           \* Runnables posted to the UI thread, oldest first
    subs,              \* voiceEmitter's registrations, in registration order:
                       \* [id, name]
    nextSub,           \* number of subscriptions made so far (ids 1..nextSub)
    nextCall,          \* number of calls issued so far (call ids 1..nextCall)
    promise,           \* call id -> "unissued" | "pending" | "resolved" | "rejected"
    step,              \* what the last step did
    lastRun,           \* the control body run last: [op, result]
    sinceStart,        \* a start succeeded and no stop/destroy body or terminal
                       \* callback has run since
    stoppedOk          \* a stop resolved and no start body has run since

vars == << linked, platformOS, speechRecognizer, isListening, created, released,
           inFlight, confirmed, ahead, available, uiQueue, subs, nextSub, nextCall,
           promise, step, lastRun, sinceStart, stoppedOk >>

native == << speechRecognizer, isListening >>
platform == << created, released, inFlight, confirmed, ahead >>
bridge == << linked, platformOS >>
relay == << subs, nextSub >>
history == << lastRun, sinceStart, stoppedOk >>

\* the adapter's fields, the platform's instances and the emitter's
\* registrations, before a step
Pre == [listening |-> isListening, handle |-> speechRecognizer,
        available |-> available, lastRun |-> lastRun, sinceStart |-> sinceStart,
        created |-> created, released |-> released, inFlight |-> inFlight,
        subs |-> subs]

\* the record of a step: its kind ("call", "run", "query", "callback",
\* "platform"), the operation or callback, the call's id, how the promise
\* stands after it and with what, whether a platform call raised in it, and Pre
\* Further fields, set by the steps they concern: message (the text the
\* promise carries), thrown (e.message of the exception raised), native (how the native promise was settled, under the
\* wrapper), thread (where the step's native code ran), access (what it
\* touched: the fields, the platform service), event and payload (what
\* sendEvent emitted), received (the subscriptions invoked, in order, each
\* with the payload it got), threw (the subscription whose callback raised),
\* caller (the exported function through which a subscription was made),
\* arg (what the platform passed to the listener method).
StepRaised(kind, op, id, settle, result, raised) ==
    [kind |-> kind, op |-> op, id |-> id, settle |-> settle, result |-> result,
     raised |-> raised, message |-> "none", thrown |-> "none",
     native |-> [settle |-> "none", result |-> "none"],
     thread |-> "none", access |-> {},
     event |-> "none", payload |-> NoPayload, received |-> << >>, threw |-> 0,
     caller |-> "none", arg |-> NoArg, pre |-> Pre]

Step(kind, op, id, settle, result) ==
    StepRaised(kind, op, id, settle, result, FALSE)

Live == (1..created) \ released

\* ---------------------------------------------------------------- initial
Init ==
    /\ linked \in BOOLEAN
    /\ platformOS \in PlatformNames
    /\ speechRecognizer = None
    /\ isListening = FALSE
    /\ created = 0
    /\ released = {}
    /\ inFlight = None
    /\ confirmed = FALSE
    /\ ahead = 0
    /\ available \in BOOLEAN
    /\ uiQueue = << >>
    /\ subs = << >>
    /\ nextSub = 0
    /\ nextCall = 0
    /\ promise = [i \in 1..MaxCalls |-> "unissued"]
    /\ lastRun = [op |-> "none", result |-> "none", behind |-> 0, clean |-> FALSE]
    /\ sinceStart = FALSE
    /\ stoppedOk = FALSE
    /\ step = Step("init", "none", 0, "none", "none")

\* ------------------------------------------------- platform recognizer service

\* SpeechRecognizer.destroy() on instance h: the set of released instances after
PlatformRelease(h, raise) ==
    IF h = None \/ raise = "release" THEN released ELSE released \cup {h}

\* the recognition in flight after instance h has been released
FlightAfterRelease(rel) ==
    IF inFlight \in rel THEN None ELSE inFlight

\* ------------------------------------------------------ VoiceModule (native)

\* An outcome of a body: how the promise is settled, the fields and the
\* platform after the body, and whether a platform call raised in it.
Outcome(settle, result, handle, listening, rel, n, flight, raised) ==
    [settle |-> settle, result |-> result, handle |-> handle,
     listening |-> listening, created |-> n, released |-> rel,
     inFlight |-> flight, raised |-> raised]

\* a body that rejects before it touches the fields or the platform
RejectUntouched_NoSettle(code) ==
    Outcome("pending", code, speechRecognizer, isListening, released, created,
            inFlight, FALSE)

RejectUntouched(code) ==
    Outcome("rejected", code, speechRecognizer, isListening, released, created,
            inFlight, FALSE)

\* setupSpeechRecognizer(): destroys the held instance, then creates a new one
\* with this module as its listener.  Gives the handle and the platform after,
\* and whether it returned normally.
setupSpeechRecognizer_NoRelease(raise) ==
    IF raise = "create"
    THEN [ok |-> FALSE, handle |-> speechRecognizer, created |-> created,
          released |-> released]
    ELSE [ok |-> TRUE, handle |-> created + 1, created |-> created + 1,
          released |-> released]

setupSpeechRecognizer(raise) ==
    LET rel == PlatformRelease(speechRecognizer, raise)
    IN  IF speechRecognizer # None /\ raise \in {"release", "release_late"}
        THEN [ok |-> FALSE, handle |-> speechRecognizer, created |-> created,
              released |-> rel]
        ELSE IF raise = "create"
        THEN [ok |-> FALSE, handle |-> speechRecognizer, created |-> created,
              released |-> rel]
        ELSE [ok |-> TRUE, handle |-> created + 1, created |-> created + 1,
              released |-> rel]

\* startListening's first guard: if (isListening)
alreadyListening_Unchecked == FALSE

alreadyListening_ByHandle == speechRecognizer # None

alreadyListening == isListening

\* startListening's second guard: if (!SpeechRecognizer.isRecognitionAvailable(..))
recognitionUnavailable_Unchecked == FALSE

recognitionUnavailable == ~available

\* The body startListening posts to the UI thread.
startListeningBody_FlagBeforeBegin(raise) ==
    IF alreadyListening
    THEN RejectUntouched("ALREADY_LISTENING")
    ELSE IF recognitionUnavailable
    THEN RejectUntouched("NOT_AVAILABLE")
    ELSE LET s == setupSpeechRecognizer(raise)
             fl == FlightAfterRelease(s.released)
         IN  IF ~s.ok
             THEN Outcome("rejected", "START_ERROR", s.handle, isListening,
                          s.released, s.created, fl, TRUE)
             ELSE IF raise = "begin"
             THEN Outcome("rejected", "START_ERROR", s.handle, TRUE,
                          s.released, s.created, fl, TRUE)
             ELSE Outcome("resolved", "Started listening", s.handle, TRUE,
                          s.released, s.created, s.handle, FALSE)

startListeningBody_ResolveBeforeBegin(raise) ==
    IF alreadyListening
    THEN RejectUntouched("ALREADY_LISTENING")
    ELSE IF recognitionUnavailable
    THEN RejectUntouched("NOT_AVAILABLE")
    ELSE LET s == setupSpeechRecognizer(raise)
             fl == FlightAfterRelease(s.released)
         IN  IF ~s.ok
             THEN Outcome("rejected", "START_ERROR", s.handle, isListening,
                          s.released, s.created, fl, TRUE)
             ELSE IF raise = "begin"
             THEN Outcome("resolved", "Started listening", s.handle, isListening,
                          s.released, s.created, fl, TRUE)
             ELSE Outcome("resolved", "Started listening", s.handle, TRUE,
                          s.released, s.created, s.handle, FALSE)

startListeningBody_NoFlag(raise) ==
    IF alreadyListening
    THEN RejectUntouched("ALREADY_LISTENING")
    ELSE IF recognitionUnavailable
    THEN RejectUntouched("NOT_AVAILABLE")
    ELSE LET s == setupSpeechRecognizer(raise)
             fl == FlightAfterRelease(s.released)
         IN  IF ~s.ok \/ raise = "begin"
             THEN Outcome("rejected", "START_ERROR", s.handle, isListening,
                          s.released, s.created, fl, TRUE)
             ELSE Outcome("resolved", "Started listening", s.handle, isListening,
                          s.released, s.created, s.handle, FALSE)

startListeningBody_AvailabilityFirst(raise) ==
    IF recognitionUnavailable
    THEN RejectUntouched("NOT_AVAILABLE")
    ELSE IF alreadyListening
    THEN RejectUntouched("ALREADY_LISTENING")
    ELSE LET s == setupSpeechRecognizer(raise)
             fl == FlightAfterRelease(s.released)
         IN  IF ~s.ok \/ raise = "begin"
             THEN Outcome("rejected", "START_ERROR", s.handle, isListening,
                          s.released, s.created, fl, TRUE)
             ELSE Outcome("resolved", "Started listening", s.handle, TRUE,
                          s.released, s.created, s.handle, FALSE)

startListeningBody(raise) ==
    IF alreadyListening
    THEN RejectUntouched("ALREADY_LISTENING")
    ELSE IF recognitionUnavailable
    THEN RejectUntouched("NOT_AVAILABLE")
    ELSE LET s == setupSpeechRecognizer(raise)
             fl == FlightAfterRelease(s.released)
         IN  IF ~s.ok \/ raise = "begin"
             THEN Outcome("rejected", "START_ERROR", s.handle, isListening,
                          s.released, s.created, fl, TRUE)
             ELSE Outcome("resolved", "Started listening", s.handle, TRUE,
                          s.released, s.created, s.handle, FALSE)

\* The body stopListening posts to the UI thread.
stopListeningBody_KeepState(raise) ==
    IF speechRecognizer # None /\ raise = "stop"
    THEN Outcome("rejected", "STOP_ERROR", speechRecognizer, isListening,
                 released, created, inFlight, TRUE)
    ELSE Outcome("resolved", "Stopped listening", speechRecognizer, isListening,
                 released, created, inFlight, FALSE)

stopListeningBody_ResolveOnRaise(raise) ==
    Outcome("resolved", "Stopped listening", speechRecognizer,
            IF speechRecognizer # None /\ raise = "stop" THEN isListening ELSE FALSE,
            released, created, inFlight, speechRecognizer # None /\ raise = "stop")

stopListeningBody_RejectIdle(raise) ==
    IF ~isListening \/ (speechRecognizer # None /\ raise = "stop")
    THEN Outcome("rejected", "STOP_ERROR", speechRecognizer, isListening,
                 released, created, inFlight,
                 speechRecognizer # None /\ raise = "stop")
    ELSE Outcome("resolved", "Stopped listening", speechRecognizer, FALSE,
                 released, created, inFlight, FALSE)

stopListeningBody_ReleasesHandle(raise) ==
    IF speechRecognizer # None /\ raise = "stop"
    THEN Outcome("rejected", "STOP_ERROR", speechRecognizer, isListening,
                 released, created, inFlight, TRUE)
    ELSE Outcome("resolved", "Stopped listening", None, FALSE,
                 PlatformRelease(speechRecognizer, "none"), created,
                 FlightAfterRelease(PlatformRelease(speechRecognizer, "none")),
                 FALSE)

stopListeningBody(raise) ==
    IF speechRecognizer # None /\ raise = "stop"
    THEN Outcome("rejected", "STOP_ERROR", speechRecognizer, isListening,
                 released, created, inFlight, TRUE)
    ELSE Outcome("resolved", "Stopped listening", speechRecognizer, FALSE,
                 released, created, inFlight, FALSE)

\* The body destroy posts to the UI thread.
destroyBody_KeepListening(raise) ==
    LET rel == PlatformRelease(speechRecognizer, raise)
    IN  IF speechRecognizer # None /\ raise \in {"release", "release_late"}
        THEN Outcome("rejected", "DESTROY_ERROR", speechRecognizer, isListening,
                     rel, created, FlightAfterRelease(rel), TRUE)
        ELSE Outcome("resolved", "Destroyed", None, isListening,
                     rel, created, FlightAfterRelease(rel), FALSE)

destroyBody_NoRelease(raise) ==
    Outcome("resolved", "Destroyed", None, FALSE, released, created, inFlight,
            FALSE)

destroyBody_NotNullSafe(raise) ==
    LET rel == PlatformRelease(speechRecognizer, raise)
    IN  IF speechRecognizer = None
           \/ raise \in {"release", "release_late"}
        THEN Outcome("rejected", "DESTROY_ERROR", speechRecognizer, isListening,
                     rel, created, FlightAfterRelease(rel), TRUE)
        ELSE Outcome("resolved", "Destroyed", None, FALSE,
                     rel, created, FlightAfterRelease(rel), FALSE)

destroyBody(raise) ==
    LET rel == PlatformRelease(speechRecognizer, raise)
    IN  IF speechRecognizer # None /\ raise \in {"release", "release_late"}
        THEN Outcome("rejected", "DESTROY_ERROR", speechRecognizer, isListening,
                     rel, created, FlightAfterRelease(rel), TRUE)
        ELSE Outcome("resolved", "Destroyed", None, FALSE,
                     rel, created, FlightAfterRelease(rel), FALSE)

Body(op, raise) ==
    CASE op = "startListening" -> startListeningBody(raise)
      [] op = "stopListening"  -> stopListeningBody(raise)
      [] op = "destroy"        -> destroyBody(raise)

\* --------------------------------------------------- index.tsx wrappers

\* the threads native code runs on
UiThread == "ui"
NativeModulesThread == "native_modules"

\* startListening / stopListening / destroy: try { return await VoiceModule.op() }
\* catch (error) { throw error } -- the native outcome is the wrapper's outcome
controlWrapper_Swallow(nat) ==
    IF nat.settle = "rejected"
    THEN [settle |-> "resolved", result |-> "undefined"]
    ELSE nat

controlWrapper(nat) == nat

\* isAvailable / isListening: try { return await VoiceModule.op() }
\* catch (error) { return false }
queryWrapper_Rethrow(nat) == nat

queryWrapper(nat) ==
    IF nat.settle = "rejected"
    THEN [settle |-> "resolved", result |-> "false"]
    ELSE nat

\* promise.reject(code, e.message) in a catch block, or a fixed text
settleMessage(out, msg) ==
    IF out.raised THEN msg ELSE FixedMessage(out.result)

\* A control wrapper is called: without the native module startListening and
\* stopListening throw and destroy returns undefined; with it the native method
\* posts its body to the UI thread and the promise stays pending.
Call(op) ==
    /\ nextCall < MaxCalls
    /\ nextCall' = nextCall + 1
    /\ IF ~linked
       THEN /\ promise' = [promise EXCEPT ![nextCall + 1] =
                              IF op = "destroy" THEN "resolved" ELSE "rejected"]
            /\ step' = [Step("call", op, nextCall + 1,
                             IF op = "destroy" THEN "resolved" ELSE "rejected",
                             IF op = "destroy" THEN "undefined"
                             ELSE "VoiceModule is not available")
                        EXCEPT !.thread = "js"]
            /\ UNCHANGED uiQueue
       ELSE /\ promise' = [promise EXCEPT ![nextCall + 1] = "pending"]
            /\ uiQueue' = Append(uiQueue, [id |-> nextCall + 1, op |-> op])
            /\ step' = [Step("call", op, nextCall + 1, "pending", "none")
                        EXCEPT !.thread = NativeModulesThread]
    /\ UNCHANGED << bridge, relay, native, platform, available, history >>

CallStartListening == Call("startListening")
CallStopListening == Call("stopListening")
CallDestroy == Call("destroy")

\* The main looper after a body: when the body began a recognition, that
\* recognition's callbacks queue behind the bodies already posted; otherwise
\* one body fewer is ahead of the callbacks of the recognition in flight.
AheadAfter(out, began) ==
    IF out.inFlight = None THEN 0
    ELSE IF began THEN Len(uiQueue) - 1
    ELSE IF ahead > 0 THEN ahead - 1 ELSE 0

\* the platform calls a body of op makes with the handle it finds, hence the
\* points where the platform can raise in it
ApplicableRaises(op) ==
    {"none"}
    \cup (IF op = "startListening" THEN {"create", "begin"} ELSE {})
    \cup (IF op = "stopListening" /\ speechRecognizer # None THEN {"stop"} ELSE {})
    \cup (IF op # "stopListening" /\ speechRecognizer # None
          THEN {"release", "release_late"} ELSE {})

\* The UI thread runs the oldest posted body to completion.
RunOnUiThread ==
    /\ uiQueue # << >>
    /\ \E raise \in ApplicableRaises(Head(uiQueue).op) :
       \E msg \in IF raise = "none" THEN {"msgA"} ELSE Messages :
         LET task == Head(uiQueue)
             out == Body(task.op, raise)
             wrapped == controlWrapper([settle |-> out.settle, result |-> out.result])
             began == task.op = "startListening" /\ out.settle = "resolved"
         IN  /\ speechRecognizer' = out.handle
             /\ isListening' = out.listening
             /\ created' = out.created
             /\ released' = out.released
             /\ inFlight' = out.inFlight
             /\ confirmed' = (confirmed /\ ~began /\ out.inFlight # None)
             /\ ahead' = AheadAfter(out, began)
             /\ promise' = [promise EXCEPT ![task.id] = wrapped.settle]
             /\ step' = [StepRaised("run", task.op, task.id, wrapped.settle,
                                    wrapped.result, out.raised)
                         EXCEPT !.message = settleMessage(out, msg),
                                !.thrown = IF out.raised THEN msg ELSE "none",
                                !.native = [settle |-> out.settle,
                                            result |-> out.result],
                                !.thread = UiThread,
                                !.access = {"fields", "platform"}]
             /\ lastRun' = [op |-> task.op, result |-> out.result,
                            behind |-> Len(uiQueue) - 1,
                            clean |-> (~isListening /\ available /\ ~out.raised)]
             /\ sinceStart' = (task.op = "startListening" /\
                                 (out.settle = "resolved" \/ sinceStart))
             /\ stoppedOk' = IF task.op = "stopListening"
                             THEN out.settle = "resolved"
                             ELSE (task.op # "startListening" /\ stoppedOk)
    /\ uiQueue' = Tail(uiQueue)
    /\ UNCHANGED << bridge, relay, available, nextCall >>

BoolStr(b) == IF b THEN "true" ELSE "false"

\* VoiceModule.isListening / isAvailable: the native promise, which resolves
\* the field or the platform's answer on the calling thread; `raises`: the
\* native call fails and the promise is rejected
nativeQuery(value, raises) ==
    IF raises THEN [settle |-> "rejected", result |-> "QUERY_ERROR"]
    ELSE [settle |-> "resolved", result |-> BoolStr(value)]

AnswerFalse == [settle |-> "resolved", result |-> "false"]

\* isListening() of index.tsx: false without the native module
isListeningQuery(raises) ==
    IF ~linked THEN AnswerFalse
    ELSE queryWrapper(nativeQuery(isListening, raises))

\* isAvailable() of index.tsx: false without the native module and on iOS
isAvailableQuery(raises) ==
    IF ~linked THEN AnswerFalse
    ELSE IF platformOS = "ios" THEN AnswerFalse
    ELSE queryWrapper(nativeQuery(available, raises))

\* isAvailable() of the JavaScript build of the wrappers: if (Platform.OS)
\* only logs, and the native module is asked on every platform
isAvailableQueryJs(raises) ==
    IF ~linked THEN AnswerFalse
    ELSE queryWrapper(nativeQuery(available, raises))

\* whether a query with these guards reaches the native method
ReachesNative(op) ==
    linked /\ (op = "isAvailable" => platformOS # "ios")

Query(op, answer, raises, access) ==
    /\ nextCall < MaxCalls
    /\ nextCall' = nextCall + 1
    /\ promise' = [promise EXCEPT ![nextCall + 1] = answer.settle]
    /\ step' = [StepRaised("query", op, nextCall + 1, answer.settle,
                           answer.result, raises /\ access # {})
                EXCEPT !.native = IF access = {}
                                  THEN [settle |-> "none", result |-> "none"]
                                  ELSE nativeQuery(IF op = "isListening"
                                                   THEN isListening ELSE available,
                                                   raises),
                       !.thread = IF access = {} THEN "js" ELSE NativeModulesThread,
                       !.access = access]
    /\ UNCHANGED << bridge, relay, native, platform, available, uiQueue, history >>

CallIsListening ==
    \E raises \in BOOLEAN :
        Query("isListening", isListeningQuery(raises), raises,
              IF ReachesNative("isListening") THEN {"fields"} ELSE {})

CallIsAvailable ==
    \E raises \in BOOLEAN :
        Query("isAvailable", isAvailableQuery(raises), raises,
              IF ReachesNative("isAvailable") THEN {"platform"} ELSE {})

CallIsAvailableJs ==
    \E raises \in BOOLEAN :
        Query("isAvailableJs", isAvailableQueryJs(raises), raises,
              IF linked THEN {"platform"} ELSE {})

\* ------------------------------------------------------- main looper order

\* The platform delivers listener calls through the main looper while a
\* recognition is in flight, behind the bodies posted before it began.
CallbackDeliverable ==
    inFlight # None /\ ahead = 0

\* getErrorMessage(error)
getErrorMessage_NetworkSwapped(error) ==
    CASE error = 3 -> "Audio recording error"
      [] error = 5 -> "Client side error"
      [] error = 9 -> "Insufficient permissions"
      [] error = 1 -> "Network error"
      [] error = 2 -> "Network timeout"
      [] error = 7 -> "No match found"
      [] error = 8 -> "Recognition service busy"
      [] error = 4 -> "Server error"
      [] error = 6 -> "No speech input"
      [] OTHER -> << "Unknown error", error >>

getErrorMessage(error) ==
    CASE error = 3 -> "Audio recording error"
      [] error = 5 -> "Client side error"
      [] error = 9 -> "Insufficient permissions"
      [] error = 2 -> "Network error"
      [] error = 1 -> "Network timeout"
      [] error = 7 -> "No match found"
      [] error = 8 -> "Recognition service busy"
      [] error = 4 -> "Server error"
      [] error = 6 -> "No speech input"
      [] OTHER -> << "Unknown error", error >>

\* the maps the listener methods build for sendEvent
errorData(error) ==
    [kind |-> "error", code |-> error, message |-> getErrorMessage(error)]

rmsData(rmsdB) == [kind |-> "rms", value |-> rmsdB]

\* the matches pushed one by one into matchesArray (none for a null list)
matchesArray(bundle) ==
    IF bundle.matches.present THEN bundle.matches.values ELSE << >>

\* the scores pushed one by one into confidenceArray (a float widened to a
\* double keeps its value)
confidenceArray(bundle) ==
    [i \in 1..Len(bundle.confidence.values) |-> bundle.confidence.values[i]]

resultsData_FirstScoreOnly(bundle) ==
    IF bundle.confidence.present
    THEN [kind |-> "results", value |-> matchesArray(bundle),
          confidence |-> IF confidenceArray(bundle) = << >> THEN << >>
                         ELSE << confidenceArray(bundle)[1] >>]
    ELSE [kind |-> "results", value |-> matchesArray(bundle)]

\* onResults puts "confidence" only when the bundle has scores
resultsData(bundle) ==
    IF bundle.confidence.present
    THEN [kind |-> "results", value |-> matchesArray(bundle),
          confidence |-> confidenceArray(bundle)]
    ELSE [kind |-> "results", value |-> matchesArray(bundle)]

partialData(bundle) ==
    [kind |-> "partial", value |-> matchesArray(bundle)]

\* ------------------------------------------------- event relay (index.tsx)

\* the registrations for one event name, in registration order
Listeners(name) == SelectSeq(subs, LAMBDA r : r.name = name)

\* the callbacks the application may see raise during one emit: none (0) or
\* one of the listeners
Throwers(name) == {0} \cup {Listeners(name)[i].id : i \in 1..Len(Listeners(name))}

\* voiceEmitter.emit(name, payload), as NativeEventEmitter runs the callbacks
\* that addVoiceListener registered as they are: each listener in registration
\* order with the payload, and an exception raised by a callback leaves emit,
\* so the listeners after it are not invoked.
emit(name, payload, thrower) ==
    LET ls == Listeners(name)
        last == IF thrower = 0 THEN Len(ls)
                ELSE CHOOSE i \in 1..Len(ls) : ls[i].id = thrower
    IN  [i \in 1..last |-> [id |-> ls[i].id, payload |-> payload]]

\* addVoiceListener(event, callback): registers the callback with the emitter
\* and returns its subscription; without the emitter nothing is registered and
\* the subscription returned only has a no-op remove.  `caller` is the exported
\* function the application called.
addVoiceListener_NoEmitterCheck(name, caller) ==
    /\ nextSub < MaxSubs
    /\ nextSub' = nextSub + 1
    /\ subs' = Append(subs, [id |-> nextSub + 1, name |-> name])
    /\ step' = [Step("subscribe", name, nextSub + 1, "none", "subscription")
                EXCEPT !.thread = "js", !.caller = caller]
    /\ UNCHANGED << bridge, native, platform, available, uiQueue, nextCall,
                    promise, history >>

addVoiceListener(name, caller) ==
    /\ nextSub < MaxSubs
    /\ nextSub' = nextSub + 1
    /\ subs' = IF linked THEN Append(subs, [id |-> nextSub + 1, name |-> name])
               ELSE subs
    /\ step' = [Step("subscribe", name, nextSub + 1, "none",
                     IF linked THEN "subscription" ELSE "noop_handle")
                EXCEPT !.thread = "js", !.caller = caller]
    /\ UNCHANGED << bridge, native, platform, available, uiQueue, nextCall,
                    promise, history >>

Subscribe ==
    \E name \in SubscribedNames : addVoiceListener(name, "addVoiceListener")

\* the convenience helpers and the event name each passes to addVoiceListener
Helpers == {"onReady", "onStart", "onEnd", "onError", "onResults",
            "onPartialResults", "onRmsChanged"}

HelperEvent(helper) ==
    CASE helper = "onReady" -> "onReadyForSpeech"
      [] helper = "onStart" -> "onBeginningOfSpeech"
      [] helper = "onEnd" -> "onEndOfSpeech"
      [] helper = "onError" -> "onError"
      [] helper = "onResults" -> "onResults"
      [] helper = "onPartialResults" -> "onPartialResults"
      [] helper = "onRmsChanged" -> "onRmsChanged"

SubscribeHelper ==
    \E helper \in Helpers : addVoiceListener(HelperEvent(helper), helper)

\* subscription.remove() on a subscription handed out earlier: removes that
\* registration if it is still there
RemoveSubscription ==
    \E id \in 1..nextSub :
        /\ subs' = SelectSeq(subs, LAMBDA r : r.id # id)
        /\ step' = [Step("remove", "remove", id, "none", "returned")
                    EXCEPT !.thread = "js"]
        /\ UNCHANGED << bridge, native, platform, available, uiQueue, nextSub,
                        nextCall, promise, history >>

\* removeAllListeners(event): the registrations left; nothing is done without
\* the emitter
removeAllListeners_EveryName(name) == << >>

removeAllListeners(name) ==
    IF linked THEN SelectSeq(subs, LAMBDA r : r.name # name) ELSE subs

RemoveAll ==
    \E name \in RemovedNames :
        /\ subs' = removeAllListeners(name)
        /\ step' = [Step("removeAll", name, 0, "none", "returned")
                    EXCEPT !.thread = "js"]
        /\ UNCHANGED << bridge, native, platform, available, uiQueue, nextSub,
                        nextCall, promise, history >>

\* ------------------------------------------- RecognitionListener callbacks

\* The platform invokes a listener method of this module while a recognition
\* is in flight.  `listening` is isListening after the method, `final` tells
\* whether the platform has delivered the recognition's final result or error,
\* `sends` whether the method calls sendEvent(name, payload); the emitter then
\* runs the subscribers of that name.
CallbackSending_OnlyWhileListening(name, listening, final, sends, arg, payload) ==
    /\ CallbackDeliverable
    /\ isListening' = listening
    /\ inFlight' = IF final THEN None ELSE inFlight
    /\ confirmed' = (~final /\ (confirmed \/ name \in {"onReadyForSpeech",
                                                       "onBeginningOfSpeech"}))
    /\ ahead' = 0
    /\ \E thrower \in IF sends /\ isListening THEN Throwers(name) ELSE {0} :
         step' = [Step("callback", name, 0, "none", "none")
                  EXCEPT !.thread = UiThread, !.access = {"fields"},
                         !.event = IF sends /\ isListening THEN name ELSE "none",
                         !.arg = arg,
                         !.payload = payload,
                         !.received = IF sends /\ isListening
                                      THEN emit(name, payload, thrower)
                                      ELSE << >>,
                         !.threw = thrower]
    /\ sinceStart' = (sinceStart /\ name \notin TerminalCallbacks)
    /\ UNCHANGED << bridge, relay, speechRecognizer, created, released, available,
                    uiQueue, nextCall, promise, lastRun, stoppedOk >>

CallbackSending(name, listening, final, sends, arg, payload) ==
    /\ CallbackDeliverable
    /\ isListening' = listening
    /\ inFlight' = IF final THEN None ELSE inFlight
    /\ confirmed' = (~final /\ (confirmed \/ name \in {"onReadyForSpeech",
                                                       "onBeginningOfSpeech"}))
    /\ ahead' = 0
    /\ \E thrower \in IF sends THEN Throwers(name) ELSE {0} :
         step' = [Step("callback", name, 0, "none", "none")
                  EXCEPT !.thread = UiThread, !.access = {"fields"},
                         !.event = IF sends THEN name ELSE "none",
                         !.arg = arg,
                         !.payload = payload,
                         !.received = IF sends THEN emit(name, payload, thrower)
                                      ELSE << >>,
                         !.threw = thrower]
    /\ sinceStart' = (sinceStart /\ name \notin TerminalCallbacks)
    /\ UNCHANGED << bridge, relay, speechRecognizer, created, released, available,
                    uiQueue, nextCall, promise, lastRun, stoppedOk >>

\* a listener method that sends its event without a payload
Callback(name, listening, final) ==
    CallbackSending(name, listening, final, TRUE, NoArg, NoPayload)

onReadyForSpeech == Callback("onReadyForSpeech", isListening, FALSE)
onBeginningOfSpeech == Callback("onBeginningOfSpeech", isListening, FALSE)
onRmsChanged ==
    \E rmsdB \in RmsLevels :
        CallbackSending("onRmsChanged", isListening, FALSE, TRUE,
                        [kind |-> "rms", rmsdB |-> rmsdB], rmsData(rmsdB))
onBufferReceived ==
    CallbackSending("onBufferReceived", isListening, FALSE, FALSE, NoArg,
                    NoPayload)

\* onPartialResults(partialResults)
onPartialResultsWith(bundle) ==
    CallbackSending("onPartialResults", isListening, FALSE, TRUE,
                    [kind |-> "bundle", bundle |-> bundle], partialData(bundle))

onPartialResults_StopsListening ==
    \E bundle \in Bundles :
        CallbackSending("onPartialResults", FALSE, FALSE, TRUE,
                        [kind |-> "bundle", bundle |-> bundle], partialData(bundle))

onPartialResults == \E bundle \in Bundles : onPartialResultsWith(bundle)
onEvent ==
    CallbackSending("onEvent", isListening, FALSE, FALSE, NoArg, NoPayload)
onEndOfSpeech_KeepsListening == Callback("onEndOfSpeech", isListening, FALSE)

onEndOfSpeech == Callback("onEndOfSpeech", FALSE, FALSE)

\* onError(error)
onErrorWith(error) ==
    CallbackSending("onError", FALSE, TRUE, TRUE,
                    [kind |-> "code", code |-> error], errorData(error))

onError == \E error \in ErrorCodes : onErrorWith(error)

\* onResults(results)
onResultsWith(bundle) ==
    CallbackSending("onResults", FALSE, TRUE, TRUE,
                    [kind |-> "bundle", bundle |-> bundle], resultsData(bundle))

onResults == \E bundle \in Bundles : onResultsWith(bundle)

\* ------------------------------------------------------------ environment

\* The recognition service becomes available or unavailable on the device.
AvailabilityChanges ==
    /\ available' = ~available
    /\ step' = Step("platform", "availability", 0, "none", "none")
    /\ UNCHANGED << bridge, relay, native, platform, uiQueue, nextCall, promise, history >>

Next ==
    \/ CallStartListening
    \/ CallStopListening
    \/ CallDestroy
    \/ CallIsListening
    \/ CallIsAvailable
    \/ CallIsAvailableJs
    \/ RunOnUiThread
    \/ onReadyForSpeech
    \/ onBeginningOfSpeech
    \/ onRmsChanged
    \/ onBufferReceived
    \/ onPartialResults
    \/ onEvent
    \/ onEndOfSpeech
    \/ onError
    \/ onResults
    \/ AvailabilityChanges

Spec == Init /\ [][Next]_vars

\* The runs checked for completion: an Android application issues the five
\* operations while sessions end, and the UI thread keeps running the bodies
\* posted to it.
InitLive ==
    /\ Init
    /\ platformOS = "android"

NextLive ==
    \/ (nextCall < MaxLiveCalls /\ CallStartListening)
    \/ (nextCall < MaxLiveCalls /\ CallStopListening)
    \/ (nextCall < MaxLiveCalls /\ CallDestroy)
    \/ (nextCall < MaxLiveCalls /\ CallIsListening)
    \/ (nextCall < MaxLiveCalls /\ CallIsAvailable)
    \/ RunOnUiThread
    \/ onEndOfSpeech
    \/ onResults

SpecLive == InitLive /\ [][NextLive]_vars /\ WF_vars(RunOnUiThread)

\* The runs that exercise the event relay: an Android application with the
\* recognition service available subscribes, cancels, and starts a session
\* whose callbacks the emitter fans out.
InitRelay ==
    /\ Init
    /\ platformOS = "android"
    /\ available

NextRelay ==
    \/ Subscribe
    \/ RemoveSubscription
    \/ RemoveAll
    \/ (nextCall < MaxRelayCalls /\ CallStartListening)
    \/ RunOnUiThread
    \/ onReadyForSpeech
    \/ onBeginningOfSpeech
    \/ onRmsChanged
    \/ onBufferReceived
    \/ onPartialResults
    \/ onEvent
    \/ onEndOfSpeech
    \/ onError
    \/ onResults

SpecRelay == InitRelay /\ [][NextRelay]_vars

\* The runs in which the application subscribes through the convenience
\* helpers and a session's callbacks are fanned out.
NextHelpers ==
    \/ SubscribeHelper
    \/ (nextCall < MaxRelayCalls /\ CallStartListening)
    \/ RunOnUiThread
    \/ onReadyForSpeech
    \/ onBeginningOfSpeech
    \/ onRmsChanged
    \/ onBufferReceived
    \/ onPartialResults
    \/ onEvent
    \/ onEndOfSpeech
    \/ onError
    \/ onResults

SpecHelpers == InitRelay /\ [][NextHelpers]_vars

\* The runs that exercise the payloads: a session is started and the platform
\* reports any error code and any result bundle.
NextPayload ==
    \/ (nextCall < MaxRelayCalls /\ CallStartListening)
    \/ RunOnUiThread
    \/ onReadyForSpeech
    \/ onBeginningOfSpeech
    \/ onEndOfSpeech
    \/ \E error \in AnyErrorCodes : onErrorWith(error)
    \/ \E bundle \in AnyBundles : onResultsWith(bundle)
    \/ \E bundle \in AnyBundles : onPartialResultsWith(bundle)

SpecPayload == InitRelay /\ [][NextPayload]_vars

\* ================================================================ claims

\* the last step ran the body of control operation op on the UI thread
Ran(op) == step.kind = "run" /\ step.op = op

\* the last step was the recognizer callback name
Handled(name) == step.kind = "callback" /\ step.op = name

Idle == ~isListening
Listening == isListening

\* C1: a startListening body that runs after a start has succeeded, with no
\* stopListening body, destroy body or terminal callback (onEndOfSpeech,
\* onResults, onError) handled in between, is rejected with ALREADY_LISTENING.
C1_SecondStartRejected ==
    (Ran("startListening") /\ step.pre.sinceStart)
        => (step.settle = "rejected" /\ step.result = "ALREADY_LISTENING")

C1_Witness ==
    /\ Ran("startListening")
    /\ step.pre.sinceStart
    /\ step.result = "ALREADY_LISTENING"
    /\ step.pre.available

\* C2: in every reachable state, state = Listening implies that the
\* recognizer handle is not None.
C2_ListeningHasHandle ==
    Listening => speechRecognizer # None

C2_Witness ==
    Listening /\ speechRecognizer # None /\ created >= 2

C4_StateMachine ==
    /\ Idle
    /\ [][(Idle /\ Listening') =>
            (step'.kind = "run" /\ step'.op = "startListening"
                /\ step'.settle = "resolved")]_vars
    /\ [](step.kind = "callback" /\ step.op \in TerminalCallbacks => Idle)

C4_Witness ==
    /\ step.kind = "callback"
    /\ step.op \in TerminalCallbacks
    /\ step.pre.listening
    /\ Idle

\* C5: once a stopListening call has resolved, an isListening query made
\* before any startListening body runs answers false.
C5_IdleAfterStop ==
    (step.kind = "query" /\ step.op = "isListening" /\ stoppedOk)
        => step.result = "false"

C5_Witness ==
    /\ step.kind = "query"
    /\ step.op = "isListening"
    /\ stoppedOk
    /\ lastRun.op = "stopListening"
    /\ sinceStart = FALSE
    /\ inFlight # None
    /\ step.result = "false"

\* C6 as stated: once a stopListening body has run, state = Idle, whether the
\* call resolved or failed with STOP_ERROR.
C6_Original ==
    Ran("stopListening") => Idle

\* C6 (amended): once a stopListening body has run and the call resolved,
\* state = Idle whatever the state before and without any recognizer callback;
\* a call that fails with STOP_ERROR leaves the state as it was.
C6_StopResetsWhenResolved ==
    Ran("stopListening") =>
        /\ step.settle = "resolved" => Idle
        /\ step.settle = "rejected" =>
              (step.result = "STOP_ERROR" /\ isListening = step.pre.listening)

\* a stop resolved while Listening, the recognition still in flight
C6_Witness ==
    /\ Ran("stopListening")
    /\ step.settle = "resolved"
    /\ step.pre.listening
    /\ inFlight # None
    /\ Idle

\* C7: a stopListening body run when state = Idle, with or without a handle,
\* resolves if no platform call raises and is rejected with STOP_ERROR only if
\* the platform's stop request raises; the state is Idle afterwards.
C7_StopWhenIdle ==
    (Ran("stopListening") /\ ~step.pre.listening) =>
        /\ Idle
        /\ ~step.raised =>
              (step.settle = "resolved" /\ step.result = "Stopped listening")
        /\ step.settle = "rejected" =>
              (step.result = "STOP_ERROR" /\ step.raised
                  /\ step.pre.handle # None)

\* a stop resolved from Idle with no recognizer ever created
C7_Witness ==
    /\ Ran("stopListening")
    /\ ~step.pre.listening
    /\ step.pre.handle = None
    /\ step.settle = "resolved"
    /\ Idle

\* C8 as stated: after a destroy body has run, from any state, state = Idle,
\* handle = None and the instance held before has been released.
C8_Original ==
    Ran("destroy") =>
        /\ Idle
        /\ speechRecognizer = None
        /\ step.pre.handle # None => step.pre.handle \in released

\* C8 (amended): after a destroy call has resolved, from any state, state =
\* Idle, handle = None and the instance held before has been released; a
\* destroy that fails with DESTROY_ERROR leaves state and handle as they were.
C8_DestroyResetsWhenResolved ==
    Ran("destroy") =>
        /\ step.settle = "resolved" =>
              /\ Idle
              /\ speechRecognizer = None
              /\ step.pre.handle # None => step.pre.handle \in released
        /\ step.settle = "rejected" =>
              /\ step.result = "DESTROY_ERROR"
              /\ isListening = step.pre.listening
              /\ speechRecognizer = step.pre.handle

\* a destroy resolved from Listening with a recognition in flight
C8_Witness ==
    /\ Ran("destroy")
    /\ step.settle = "resolved"
    /\ step.pre.listening
    /\ step.pre.handle \in released
    /\ Idle
    /\ speechRecognizer = None

C10_UnavailableRejected ==
    (Ran("startListening") /\ ~step.pre.listening /\ ~step.pre.available) =>
        /\ step.settle = "rejected"
        /\ step.result = "NOT_AVAILABLE"
        /\ Idle

C10_Witness ==
    /\ Ran("startListening")
    /\ ~step.pre.listening
    /\ ~step.pre.available
    /\ step.result = "NOT_AVAILABLE"
    /\ Idle

\* C11: when a platform call raises while a startListening body sets up the
\* recognizer or issues the begin request, the call is rejected with
\* START_ERROR carrying the exception's message, and the state is Idle.
C11_StartFailedOnRaise ==
    (Ran("startListening") /\ step.raised) =>
        /\ step.settle = "rejected"
        /\ step.result = "START_ERROR"
        /\ step.thrown \in Messages
        /\ step.message = step.thrown
        /\ Idle

\* the begin request raised on a freshly created recognizer
C11_Witness ==
    /\ Ran("startListening")
    /\ step.raised
    /\ step.result = "START_ERROR"
    /\ step.message = "msgB"
    /\ speechRecognizer # None
    /\ speechRecognizer # step.pre.handle
    /\ Idle

C13_StartAlwaysPossibleWhenIdle ==
    (Ran("startListening") /\ ~step.pre.listening /\ step.pre.available
                           /\ ~step.raised) =>
        /\ step.settle = "resolved"
        /\ step.result = "Started listening"
        /\ Listening

\* a start succeeded again after an earlier session was stopped or destroyed
C13_Witness ==
    /\ Ran("startListening")
    /\ step.pre.lastRun.op \in {"stopListening", "destroy"}
    /\ step.pre.handle # None \/ created >= 2
    /\ created >= 2
    /\ step.settle = "resolved"
    /\ Listening

\* C14: when two startListening calls are both posted before the first body
\* runs, and the first body runs from Idle with recognition available and no
\* platform exception, the first resolves and the second, run next, is
\* rejected with ALREADY_LISTENING: exactly one succeeds.
C14_ConcurrentStartsOneWins ==
    (Ran("startListening") /\ step.pre.lastRun.op = "startListening"
                           /\ step.pre.lastRun.behind >= 1
                           /\ step.pre.lastRun.clean) =>
        /\ step.pre.lastRun.result = "Started listening"
        /\ step.settle = "rejected"
        /\ step.result = "ALREADY_LISTENING"

C14_Witness ==
    /\ Ran("startListening")
    /\ step.pre.lastRun.op = "startListening"
    /\ step.pre.lastRun.behind >= 1
    /\ step.pre.lastRun.clean
    /\ step.result = "ALREADY_LISTENING"
    /\ Cardinality({i \in 1..MaxCalls : promise[i] = "resolved"}) = 1

\* C15 as stated: every step of the five operations that calls the platform
\* recognizer service or reads or writes the fields runs on the UI thread.
C15_Original ==
    (step.kind \in {"run", "query"} /\ step.access # {})
        => step.thread = UiThread

\* C16: a rejection of native startListening / stopListening / destroy reaches
\* the wrapper's caller as a rejection with the same error; isAvailable and
\* isListening always resolve with a boolean, and with false when the native
\* module is absent or the native query is rejected.
C16_FailuresPropagateQueriesNeverFail ==
    /\ (step.kind = "run" /\ step.native.settle = "rejected") =>
          /\ step.settle = "rejected"
          /\ step.result = step.native.result
          /\ promise[step.id] = "rejected"
    /\ step.kind = "query" =>
          /\ step.settle = "resolved"
          /\ promise[step.id] = "resolved"
          /\ step.result \in {"true", "false"}
          /\ (~linked \/ step.native.settle = "rejected") => step.result = "false"

\* isListening answered false, while Listening, because the native query failed
C16_Witness ==
    /\ step.kind = "query"
    /\ step.op = "isListening"
    /\ step.native.settle = "rejected"
    /\ Listening
    /\ step.result = "false"

\* C17 as stated: on iOS isAvailable resolves to false whatever the native
\* module would report.
C17_Original ==
    (step.kind = "query" /\ step.op \in {"isAvailable", "isAvailableJs"}
                         /\ platformOS = "ios") =>
        (step.settle = "resolved" /\ step.result = "false")
\* ---------------------------------------------------------------- C18..C20

\* the last step was a listener method whose event the emitter fanned out
Delivered == step.kind = "callback" /\ step.event # "none"

\* the subscriptions the last delivery invoked, in invocation order
ReceivedIds == [i \in 1..Len(step.received) |-> step.received[i].id]

\* the subscriptions registered for the delivered event, in registration order
ListenerIds ==
    [i \in 1..Len(Listeners(step.event)) |-> Listeners(step.event)[i].id]

\* the subscriptions whose registration has been removed
Cancelled == (1..nextSub) \ {subs[i].id : i \in 1..Len(subs)}

\* C18: when one payload is delivered for an event name, the callbacks
\* registered for that name are invoked in registration order (A before B),
\* each exactly once and each with exactly the delivered payload; a single
\* subscriber is invoked exactly once with that payload.
C18_Original ==
    Delivered =>
        /\ ReceivedIds = ListenerIds
        /\ \A i \in 1..Len(step.received) : step.received[i].payload = step.payload

\* C19: if callback A raises when invoked for an event, every callback B
\* registered after A for the same event name is still invoked with the same
\* payload.
C19_Original ==
    (Delivered /\ step.threw # 0) =>
        \A i, j \in 1..Len(ListenerIds) :
            (ListenerIds[i] = step.threw /\ i < j) =>
                \E k \in 1..Len(step.received) :
                    /\ step.received[k].id = ListenerIds[j]
                    /\ step.received[k].payload = step.payload

\* C20: once a subscription has been cancelled with remove(), its callback
\* receives no later delivery, and every other subscription for the delivered
\* name keeps receiving the deliveries, in the original order.
C20_Original ==
    (Delivered /\ Cancelled # {}) =>
        /\ \A k \in 1..Len(ReceivedIds) : ReceivedIds[k] \notin Cancelled
        /\ ReceivedIds = ListenerIds

\* ---------------------------------------------------------------- C21..C30

\* the registrations for one event name among regs, in registration order
ListenersIn(regs, name) == SelectSeq(regs, LAMBDA r : r.name = name)

\* C21: removeAllListeners(eventName) removes every registration for eventName
\* and none for any other event name, and returns without error also when
\* eventName has no registration or the emitter does not exist.
C21_RemoveAllOnlyThatName ==
    step.kind = "removeAll" =>
        /\ Listeners(step.op) = << >>
        /\ \A name \in EventNames \ {step.op} :
               Listeners(name) = ListenersIn(step.pre.subs, name)
        /\ step.result = "returned"
        /\ ~step.raised

C21_Witness ==
    /\ step.kind = "removeAll"
    /\ ListenersIn(step.pre.subs, step.op) # << >>
    /\ \E name \in EventNames \ {step.op} : Listeners(name) # << >>

\* C22: without the native module (no emitter) addVoiceListener does not fail:
\* it registers nothing and returns a handle whose remove() does nothing and
\* returns, however often it is called, and no callback is ever invoked.
C22_NoEmitterSubscribeIsNoop ==
    ~linked =>
        /\ subs = << >>
        /\ step.kind = "subscribe" => (step.result = "noop_handle" /\ ~step.raised)
        /\ step.kind = "remove" =>
               (step.result = "returned" /\ ~step.raised /\ subs = step.pre.subs)
        /\ step.received = << >>

C22_Witness ==
    /\ ~linked
    /\ step.kind = "remove"
    /\ nextSub = MaxSubs

\* the event name the claim pairs with each helper
ClaimedEvent ==
    [helper \in Helpers |->
        CASE helper = "onReady" -> "onReadyForSpeech"
          [] helper = "onStart" -> "onBeginningOfSpeech"
          [] helper = "onEnd" -> "onEndOfSpeech"
          [] OTHER -> helper]

\* a subscription was just made through a helper, with the emitter present
HelperSubscribed ==
    step.kind = "subscribe" /\ step.caller \in Helpers /\ linked

\* each helper registers exactly what addVoiceListener with the paired name
\* registers
HelperIsSubscribe ==
    HelperSubscribed =>
        subs = Append(step.pre.subs,
                      [id |-> step.id, name |-> ClaimedEvent[step.caller]])

\* C23: each convenience helper is exactly a subscription with its fixed event
\* name (onReady -> onReadyForSpeech, onStart -> onBeginningOfSpeech,
\* onEnd -> onEndOfSpeech, the others under their own name), and a callback
\* registered through a helper receives the deliveries of that event name and
\* of no other.
C23_Original ==
    /\ HelperIsSubscribe
    /\ Delivered =>
           \A i \in 1..Len(subs) :
               (subs[i].name = step.event) <=>
                   (\E k \in 1..Len(ReceivedIds) : ReceivedIds[k] = subs[i].id)

\* the message the taxonomy fixes for the codes 1..9
Taxonomy ==
    << "Network timeout", "Network error", "Audio recording error",
       "Server error", "Client side error", "No speech input", "No match found",
       "Recognition service busy", "Insufficient permissions" >>

\* C24: for every platform error code c the onError event carries code = c
\* unchanged with the message the taxonomy fixes for c (1 network timeout,
\* 2 network, 3 audio, 4 server, 5 client, 6 speech timeout, 7 no match,
\* 8 recognizer busy, 9 insufficient permissions); every code outside 1..9
\* yields the generic unknown-error message that carries c.
C24_ErrorPayloadFollowsTaxonomy ==
    Handled("onError") =>
        LET c == step.arg.code
        IN  /\ step.event = "onError"
            /\ step.payload.code = c
            /\ step.payload.message =
                   IF c \in 1..9 THEN Taxonomy[c] ELSE << "Unknown error", c >>

C24_Witness ==
    /\ Handled("onError")
    /\ step.arg.code = 7
    /\ step.payload = [kind |-> "error", code |-> 7, message |-> "No match found"]

HandleKept ==
    /\ speechRecognizer = step.pre.handle
    /\ created = step.pre.created
    /\ released = step.pre.released

\* C26: the recognizer handle changes only inside the bodies of startListening
\* and destroy: the stopListening body, the isAvailable and isListening
\* queries, the posting of a call and every recognizer callback leave the
\* handle as it was, and none of them creates or releases a platform
\* recognizer.
C26_HandleChangesOnlyInStartAndDestroy ==
    (step.kind # "init" /\ ~Ran("startListening") /\ ~Ran("destroy")) => HandleKept

C26_Witness ==
    /\ Ran("stopListening")
    /\ step.settle = "resolved"
    /\ step.pre.handle # None
    /\ step.pre.handle \notin released
    /\ speechRecognizer = step.pre.handle

Settled == {"resolved", "rejected"}

\* C27: every invocation of startListening, stopListening, destroy,
\* isAvailable or isListening eventually completes its promise, and completes
\* it once: a promise that is pending is eventually resolved or rejected, and
\* a promise that is resolved or rejected stays as it is; this as long as the
\* UI thread keeps running the bodies posted to it.
C27_EveryCallCompletesOnce ==
    /\ \A i \in 1..MaxCalls : (promise[i] = "pending") ~> (promise[i] \in Settled)
    /\ [][\A i \in 1..MaxCalls :
              /\ promise[i] \in Settled => promise'[i] = promise[i]
              /\ (promise[i] = "unissued" /\ promise'[i] # "unissued") =>
                     (i = nextCall + 1 /\ promise'[i] \in Settled \cup {"pending"})
         ]_vars

C27_Witness ==
    /\ step.kind = "run"
    /\ promise[step.id] \in Settled
    /\ \E i \in 1..MaxCalls : i # step.id /\ promise[i] = "pending"

\* C28: each platform callback is relayed as exactly one event of its own name
\* (onReadyForSpeech, onBeginningOfSpeech, onEndOfSpeech, onResults,
\* onPartialResults, onError, onRmsChanged), as the callback arrives and
\* whatever the state is, also when the session is Idle; onBufferReceived and
\* onEvent produce no event.
C28_EveryCallbackRelayed ==
    step.kind = "callback" =>
        IF step.op \in {"onBufferReceived", "onEvent"}
        THEN step.event = "none"
        ELSE step.op \in EventNames /\ step.event = step.op

C28_Witness ==
    /\ Handled("onResults")
    /\ ~step.pre.listening
    /\ step.pre.lastRun.op = "stopListening"
    /\ step.pre.lastRun.result = "Stopped listening"
    /\ step.event = "onResults"

\* C29: a startListening body that rejects with ALREADY_LISTENING or with
\* NOT_AVAILABLE changes nothing: isListening and the handle keep their values,
\* no recognizer is created or released and no recognition is begun; when the
\* session is Listening and recognition is unavailable as well, the rejection
\* is ALREADY_LISTENING.
C29_GuardRejectionsChangeNothing ==
    /\ (Ran("startListening")
        /\ step.native.result \in {"ALREADY_LISTENING", "NOT_AVAILABLE"}) =>
           /\ step.settle = "rejected"
           /\ isListening = step.pre.listening
           /\ HandleKept
           /\ inFlight = step.pre.inFlight
    /\ (Ran("startListening") /\ step.pre.listening /\ ~step.pre.available) =>
           (step.settle = "rejected" /\ step.result = "ALREADY_LISTENING")

C29_Witness ==
    /\ Ran("startListening")
    /\ step.pre.listening
    /\ ~step.pre.available
    /\ step.pre.handle # None
    /\ step.result = "ALREADY_LISTENING"

NonTerminalCallbacks ==
    {"onReadyForSpeech", "onBeginningOfSpeech", "onRmsChanged",
     "onPartialResults", "onBufferReceived", "onEvent"}

\* C30: the callbacks onReadyForSpeech, onBeginningOfSpeech, onRmsChanged,
\* onPartialResults, onBufferReceived and onEvent leave isListening and the
\* handle unchanged, so a Listening session stays Listening across partial
\* results and volume updates.
C30_NonTerminalCallbacksKeepState ==
    (step.kind = "callback" /\ step.op \in NonTerminalCallbacks) =>
        /\ isListening = step.pre.listening
        /\ HandleKept

C30_Witness ==
    /\ Handled("onPartialResults")
    /\ step.pre.listening
    /\ isListening
    /\ speechRecognizer # None

\* ---------------------------------------------------------------- C31..C32

\* C31: in every reachable state a handle that is not null refers to a
\* recognizer that has been created and not yet released, whichever step of a
\* startListening, stopListening or destroy body the platform raises in.
C31_Original ==
    speechRecognizer # None => speechRecognizer \in Live

\* the recognizer held before the step had a recognition in flight: begun,
\* neither onResults nor onError delivered for it, not released
HeldInFlight ==
    /\ step.pre.handle # None
    /\ step.pre.inFlight = step.pre.handle
    /\ step.pre.handle \notin step.pre.released

\* the step released the recognizer held before it
ReleasedHeld ==
    /\ step.pre.handle # None
    /\ step.pre.handle \notin step.pre.released
    /\ step.pre.handle \in released

\* C32 as stated: a startListening body is rejected with ALREADY_LISTENING
\* whenever the recognizer held still has a recognition in flight, hence an
\* accepted startListening never releases a recognizer whose final result or
\* error is still pending.
C32_Original ==
    /\ (Ran("startListening") /\ HeldInFlight) =>
           (step.settle = "rejected" /\ step.result = "ALREADY_LISTENING")
    /\ (Ran("startListening") /\ ReleasedHeld) => ~HeldInFlight

\* C32 (amended): a startListening body is rejected with ALREADY_LISTENING
\* whenever isListening is set, so it never releases the recognizer of a
\* Listening session; a recognition still in flight after stopListening or
\* onEndOfSpeech has reset isListening does not block it, and the body then
\* releases that recognizer while its final result or error is pending.
C32_RejectedWhileListeningOnly ==
    /\ (Ran("startListening") /\ step.pre.listening) =>
           (step.settle = "rejected" /\ step.result = "ALREADY_LISTENING"
            /\ ~ReleasedHeld)
    /\ (Ran("startListening") /\ ~step.pre.listening /\ HeldInFlight) =>
           /\ step.native.result # "ALREADY_LISTENING"
           /\ (step.settle = "resolved" => (ReleasedHeld /\ inFlight = speechRecognizer))

C32_Witness ==
    /\ Ran("startListening")
    /\ step.settle = "resolved"
    /\ ~step.pre.listening
    /\ HeldInFlight
    /\ ReleasedHeld

====
